---- MODULE Spec2Model ----
(***************************************************************************)
(* RemindME (LocationReminder): the reminder store (DatabaseService), the  *)
(* geofence trigger pipeline (LocationService), the notification           *)
(* dispatcher (NotificationService), application bootstrap (App) and the   *)
(* screen handlers that write the store.                                   *)
(*                                                                         *)
(* Every handler is one action.  The host platform (expo-location,         *)
(* expo-notifications, expo-task-manager, expo-sqlite) is the environment: *)
(* its answers are the inputs the actions draw with \E.                    *)
(***************************************************************************)
EXTENDS Integers, Sequences, FiniteSets, TLC

\* ------------------------------------------------------------------ bounds
\* The wall clock runs from 0 to MaxTime (milliseconds, abstractly).
MaxTime == 2
\* At most this many notifications are kept in the notification centre.
MaxNotifications == 2

\* Reminder ids the id generator can produce.
Ids == {"r1", "r2"}

\* SQL NULL / JS null in a text column.
NULL == "NULL"
\* A nullable timestamp (triggeredAt): <<>> is NULL, <<t>> is the time t.
NoTime == <<>>
At(t) == <<t>>
\* A value of a Partial<Reminder>: <<>> is undefined, <<v>> is v.
UNDEFINED == <<>>
Def(v) == <<v>>
\* "Reminder | null": <<>> is null, <<r>> is r.
NoReminder == <<>>
\* An optional text field (description?, address?) that is not given.
Missing == "MISSING"

\* The field sets a user enters (Omit<Reminder, 'id' | 'createdAt'>).
\* A coordinate is a number of 10^-7 degrees: 377749000 is 37.7749.
GrabKeys ==
    [ title |-> "Grab keys", description |-> "", latitude |-> 377749000,
      longitude |-> -1224194000, radius |-> 50, address |-> "Home",
      isActive |-> TRUE, notificationTitle |-> "Don't forget!",
      notificationBody |-> "Grab your keys" ]
BuyMilk ==
    [ title |-> "Buy milk", description |-> "2 litres",
      latitude |-> 407128000,
      longitude |-> -740060000, radius |-> 100, address |-> "",
      isActive |-> TRUE, notificationTitle |-> "Shopping",
      notificationBody |-> "Buy milk" ]
FieldSets == { GrabKeys, BuyMilk }
\* A field set without address, switched off.
Gym ==
    [ title |-> "Gym", description |-> "Leg day", latitude |-> 377749000,
      longitude |-> -1224194000, radius |-> 1000, address |-> Missing,
      isActive |-> FALSE, notificationTitle |-> "Gym",
      notificationBody |-> "Time to train" ]

Range(s) == { s[i] : i \in DOMAIN s }

\* The table with no rows.
EmptyTable == [ i \in {} |-> NULL ]

VARIABLES
    \* durable state: survives a process relaunch
    rows,                       \* table `reminders`: id -> row
    monitored,                  \* regions registered with the platform
    notifications,              \* notifications delivered by the platform
    notifPerm,                  \* notification permission of the device
    now,                        \* the wall clock
    \* state of the running JS process
    db,                         \* DatabaseService.db: "null" or "open"
    isLocationServicesEnabled,  \* LocationService.isLocationServicesEnabled
    taskDefined,                \* TaskManager holds GEOFENCING_TASK_NAME
    isReady,                    \* App's isReady
    alert,                      \* the last Alert.alert title shown
    bootLog,                    \* the initialize() calls initializeApp made
    screen,                     \* "Home" when HomeScreen has focus
    homeReminders,              \* HomeScreen's `reminders` state while the
                                \* screen has focus (nothing reads it while
                                \* the screen is blurred, and every focus
                                \* reloads it: << >> then)
    editReminderId,             \* route.params.reminderId of the mounted
                                \* EditReminderScreen ("" when none is)
    editRadius,                 \* EditReminderScreen's `radius` state
    editLatitude,               \* EditReminderScreen's `latitude` state
    editLongitude,              \* EditReminderScreen's `longitude` state
    editAddress,                \* EditReminderScreen's `address` state
    awaiting,                   \* the async runs suspended at an await:
                                \* what each resumes with
    \* observations of the last platform interactions
    lastSync,                   \* what the startGeofencing call of the last
                                \* step did (NoSync: the step made none)
    lastTask,                   \* what the geofencing task run of the last
                                \* step did (NoTask: the step ran none)
    lastStore                   \* the call a client of the store made in the
                                \* last step (NoStore: the step was no such
                                \* call)

editPlace == <<editLatitude, editLongitude, editAddress>>
durable == <<rows, monitored, notifications, notifPerm, now>>
process == <<db, isLocationServicesEnabled, taskDefined, isReady, alert,
             bootLog, screen, homeReminders, editReminderId, editRadius, editPlace, awaiting>>
observed == <<lastSync, lastTask, lastStore>>
vars == <<durable, process, observed>>

\* ------------------------------------------------------- DatabaseService

\* RowToReminder with a conversion of isActive that makes every row active
\* (Boolean('0') is true).
RowToReminder_Truthy(id, row) ==
    [ id |-> id, title |-> row.title, description |-> row.description,
      latitude |-> row.latitude, longitude |-> row.longitude,
      radius |-> row.radius, address |-> row.address,
      isActive |-> TRUE,
      notificationTitle |-> row.notificationTitle,
      notificationBody |-> row.notificationBody,
      createdAt |-> row.createdAt, triggeredAt |-> row.triggeredAt ]

\* A row as the Reminder object getReminder / getAllReminders build from it.
RowToReminder(id, row) ==
    [ id |-> id, title |-> row.title, description |-> row.description,
      latitude |-> row.latitude, longitude |-> row.longitude,
      radius |-> row.radius, address |-> row.address,
      isActive |-> (row.isActive # 0),
      notificationTitle |-> row.notificationTitle,
      notificationBody |-> row.notificationBody,
      createdAt |-> row.createdAt, triggeredAt |-> row.triggeredAt ]

\* `text || null` for an optional text: '' and undefined become null.
OrNull(text) == IF text = "" \/ text = Missing THEN NULL ELSE text

\* The row addReminder inserts: description and address go through
\* `|| null`, isActive becomes 1 / 0, triggeredAt is not in the column list
\* (NULL).
NewRow(reminder, createdAt) ==
    [ title |-> reminder.title,
      description |-> OrNull(reminder.description),
      latitude |-> reminder.latitude, longitude |-> reminder.longitude,
      radius |-> reminder.radius,
      address |-> OrNull(reminder.address),
      isActive |-> IF reminder.isActive THEN 1 ELSE 0,
      notificationTitle |-> reminder.notificationTitle,
      notificationBody |-> reminder.notificationBody,
      createdAt |-> createdAt, triggeredAt |-> NoTime ]

\* INSERT OR REPLACE INTO reminders.
addReminder_Replace(table, id, reminder, createdAt) ==
    [ i \in DOMAIN table \cup {id} |->
        IF i = id THEN NewRow(reminder, createdAt) ELSE table[i] ]

\* INSERT INTO reminders: the table after the insert.  id is PRIMARY KEY:
\* when a row has this id the INSERT fails and the table is as before
\* (addReminder throws then).
addReminder(table, id, reminder, createdAt) ==
    IF id \in DOMAIN table THEN table
    ELSE [ i \in DOMAIN table \cup {id} |->
             IF i = id THEN NewRow(reminder, createdAt) ELSE table[i] ]

\* SELECT * FROM reminders, without the WHERE clause: the first row there
\* is.
getReminder_First(table, id) ==
    IF DOMAIN table # {}
    THEN LET first == CHOOSE i \in DOMAIN table : TRUE
         IN  <<RowToReminder(first, table[first])>>
    ELSE NoReminder

\* SELECT * FROM reminders WHERE id = ?
getReminder(table, id) ==
    IF id \in DOMAIN table THEN <<RowToReminder(id, table[id])>>
    ELSE NoReminder

\* SELECT * FROM reminders ORDER BY createdAt ASC.
getAllReminders_Ascending(table) ==
    LET n == Cardinality(DOMAIN table)
        orders == { s \in [1..n -> DOMAIN table] :
                      /\ \A i, j \in 1..n : i # j => s[i] # s[j]
                      /\ \A i \in 1..(n - 1) :
                            table[s[i]].createdAt <= table[s[i + 1]].createdAt }
    IN  { [ i \in 1..n |-> RowToReminder(s[i], table[s[i]]) ] : s \in orders }

\* SELECT * FROM reminders ORDER BY createdAt DESC: every order the query may
\* return (rows with equal createdAt come in either order).
getAllReminders(table) ==
    LET n == Cardinality(DOMAIN table)
        orders == { s \in [1..n -> DOMAIN table] :
                      /\ \A i, j \in 1..n : i # j => s[i] # s[j]
                      /\ \A i \in 1..(n - 1) :
                            table[s[i]].createdAt >= table[s[i + 1]].createdAt }
    IN  { [ i \in 1..n |-> RowToReminder(s[i], table[s[i]]) ] : s \in orders }

\* updateReminder binding NULL for the keys whose value is undefined.
updateReminder_Erasing(table, id, updates) ==
    LET fields == { k \in DOMAIN updates : k # "id" }
        value(k) == IF updates[k] = UNDEFINED
                    THEN (IF k = "triggeredAt" THEN NoTime ELSE NULL)
                    ELSE IF k = "isActive"
                    THEN (IF updates[k][1] THEN 1 ELSE 0)
                    ELSE updates[k][1]
    IN  IF fields = {} \/ id \notin DOMAIN table THEN table
        ELSE [ table EXCEPT ![id] =
                 [ c \in DOMAIN @ |-> IF c \in fields THEN value(c) ELSE @[c] ] ]

\* UPDATE reminders SET <the defined fields but id>, without the WHERE
\* clause.
updateReminder_NoWhere(table, id, updates) ==
    LET fields == { k \in DOMAIN updates :
                      k # "id" /\ updates[k] # UNDEFINED }
        value(k) == IF k = "isActive"
                    THEN (IF updates[k][1] THEN 1 ELSE 0)
                    ELSE updates[k][1]
    IN  IF fields = {} THEN table
        ELSE [ i \in DOMAIN table |->
                 [ c \in DOMAIN table[i] |->
                     IF c \in fields THEN value(c) ELSE table[i][c] ] ]

\* INSERT OR REPLACE in place of UPDATE: the row is written anew, isActive
\* and triggeredAt taking their defaults when the updates do not name them.
updateReminder_Replacing(table, id, updates) ==
    LET fields == { k \in DOMAIN updates :
                      k # "id" /\ updates[k] # UNDEFINED }
        value(k) == IF k = "isActive"
                    THEN (IF updates[k][1] THEN 1 ELSE 0)
                    ELSE updates[k][1]
    IN  IF fields = {} \/ id \notin DOMAIN table THEN table
        ELSE [ table EXCEPT ![id] =
                 [ c \in DOMAIN @ |->
                     IF c \in fields THEN value(c)
                     ELSE IF c = "triggeredAt" THEN NoTime
                     ELSE IF c = "isActive" THEN 1
                     ELSE @[c] ] ]

\* UPDATE reminders SET <the defined fields but id> WHERE id = ?
updateReminder(table, id, updates) ==
    LET fields == { k \in DOMAIN updates :
                      k # "id" /\ updates[k] # UNDEFINED }
        value(k) == IF k = "isActive"
                    THEN (IF updates[k][1] THEN 1 ELSE 0)
                    ELSE updates[k][1]
    IN  IF fields = {} \/ id \notin DOMAIN table THEN table
        ELSE [ table EXCEPT ![id] =
                 [ c \in DOMAIN @ |-> IF c \in fields THEN value(c) ELSE @[c] ] ]

\* DELETE FROM reminders, without the WHERE clause.
deleteReminder_All(table, id) ==
    EmptyTable

\* DELETE FROM reminders WHERE id = ?
deleteReminder(table, id) ==
    [ i \in DOMAIN table \ {id} |-> table[i] ]

\* markReminderAsTriggered passing an undefined triggeredAt.
markReminderAsTriggered_Undefined(table, id, time) ==
    updateReminder(table, id, [ triggeredAt |-> UNDEFINED ])

\* markReminderAsTriggered keeping the first trigger time.
markReminderAsTriggered_Once(table, id, time) ==
    IF id \in DOMAIN table /\ table[id].triggeredAt # NoTime THEN table
    ELSE updateReminder(table, id, [ triggeredAt |-> Def(At(time)) ])

\* markReminderAsTriggered inserting the row when there is none.
markReminderAsTriggered_Upsert(table, id, time) ==
    IF id \in DOMAIN table
    THEN updateReminder(table, id, [ triggeredAt |-> Def(At(time)) ])
    ELSE [ i \in DOMAIN table \cup {id} |->
             IF i = id
             THEN [ NewRow(GrabKeys, time) EXCEPT !.triggeredAt = At(time) ]
             ELSE table[i] ]

\* updateReminder(id, { triggeredAt: new Date().toISOString() })
markReminderAsTriggered(table, id, time) ==
    updateReminder(table, id, [ triggeredAt |-> Def(At(time)) ])

ActiveIds == { id \in DOMAIN rows : rows[id].isActive # 0 }

\* --------------------------------------------------- NotificationService

\* NotificationService.initialize: the permission the device ends with and
\* whether the call throws ('Notification permissions not granted').
\* `answer` is what the user answers if asked.
NotificationServiceInitialize(existingStatus, answer) ==
    LET finalStatus == IF existingStatus # "granted" THEN answer
                       ELSE existingStatus
    IN  [ status |-> finalStatus, thrown |-> finalStatus # "granted" ]

\* The content scheduleLocationNotification hands to scheduleNotificationAsync.
NotificationRequest(reminder) ==
    [ title |-> reminder.notificationTitle,
      body |-> reminder.notificationBody,
      reminderId |-> reminder.id,
      type |-> "location-reminder",
      trigger |-> "null" ]

\* Notifications.scheduleNotificationAsync(request): a request whose
\* trigger is null is delivered at once; the platform gives it an
\* identifier and returns that, or rejects with its error.
scheduleNotificationAsync(delivered, request, platformOk) ==
    IF platformOk
    THEN LET identifier == Len(delivered) + 1
         IN  [ notifications |->
                   Append(delivered, request @@ [ identifier |-> identifier ]),
               identifier |-> <<identifier>>, error |-> "none" ]
    ELSE [ notifications |-> delivered, identifier |-> << >>,
           error |-> "platform error" ]

\* scheduleLocationNotification with a catch that returns undefined.
scheduleLocationNotification_Swallowing(delivered, reminder, platformOk) ==
    LET answer == scheduleNotificationAsync(delivered,
                      NotificationRequest(reminder), platformOk)
    IN  [ notifications |-> answer.notifications,
          notificationId |-> answer.identifier,
          thrown |-> FALSE, error |-> "none" ]

\* scheduleLocationNotification: the delivered notifications afterwards,
\* the notificationId it returns (<< >>: none), and whether it throws and
\* what (it rethrows the platform's error).
scheduleLocationNotification(delivered, reminder, platformOk) ==
    LET answer == scheduleNotificationAsync(delivered,
                      NotificationRequest(reminder), platformOk)
    IN  [ notifications |-> answer.notifications,
          notificationId |-> answer.identifier,
          thrown |-> answer.error # "none",
          error |-> answer.error ]

\* -------------------------------------------------------- LocationService

\* requestPermissions: throws unless foreground permission is granted;
\* otherwise sets isLocationServicesEnabled.
requestPermissions(foregroundStatus) ==
    [ thrown |-> foregroundStatus # "granted",
      isLocationServicesEnabled |-> foregroundStatus = "granted" ]

\* The GeofenceRegion projection of a reminder.
GeofenceRegion(reminder) ==
    [ identifier |-> reminder.id, latitude |-> reminder.latitude,
      longitude |-> reminder.longitude, radius |-> reminder.radius ]

\* reminders.filter(r => r.isActive).map(r => region of r)
Regions(reminders) ==
    LET active == SelectSeq(reminders, LAMBDA r : r.isActive)
    IN  [ i \in 1..Len(active) |-> GeofenceRegion(active[i]) ]

\* Location.startGeofencingAsync(GEOFENCING_TASK_NAME, regions): the call
\* replaces the task's regions by `regions`, or rejects.  expo-location
\* rejects an empty array ("Regions array cannot be empty. Use
\* stopGeofencingAsync ..."); `platformOk` is every other reason the
\* platform may have to reject (the catch in startGeofencing expects them).
PlatformAccepts(regions, platformOk) ==
    Len(regions) > 0 /\ platformOk

\* startGeofencing without the isLocationServicesEnabled guard.
startGeofencing_NoGuard(reminders, platformOk) ==
    LET regions == Regions(reminders)
    IN  IF PlatformAccepts(regions, platformOk)
        THEN [ monitored |-> Range(regions),
               lastSync |-> [ call |-> "accepted", regions |-> regions,
                            surfaced |-> "nothing" ] ]
        ELSE [ monitored |-> monitored,
               lastSync |-> [ call |-> "rejected", regions |-> regions,
                            surfaced |-> "nothing" ] ]

\* startGeofencing: the monitored set afterwards and what the call did.
\* It never throws and returns nothing: a rejection is caught and logged,
\* so the call surfaces nothing to its caller.
startGeofencing(reminders, platformOk) ==
    IF ~isLocationServicesEnabled
    THEN [ monitored |-> monitored,
           lastSync |-> [ call |-> "skipped", regions |-> << >>,
                          surfaced |-> "nothing" ] ]
    ELSE LET regions == Regions(reminders)
         IN  IF PlatformAccepts(regions, platformOk)
             THEN [ monitored |-> Range(regions),
                    lastSync |-> [ call |-> "accepted", regions |-> regions,
                            surfaced |-> "nothing" ] ]
             ELSE [ monitored |-> monitored,
                    lastSync |-> [ call |-> "rejected", regions |-> regions,
                            surfaced |-> "nothing" ] ]

\* The digits of a fraction of 6 decimals, with its leading zeros.
SixDigits(fraction) ==
    (IF fraction < 10 THEN "00000"
     ELSE IF fraction < 100 THEN "0000"
     ELSE IF fraction < 1000 THEN "000"
     ELSE IF fraction < 10000 THEN "00"
     ELSE IF fraction < 100000 THEN "0"
     ELSE "") \o ToString(fraction)

\* x.toFixed(6) for a coordinate x (a number of 10^-7 degrees): the sign,
\* then the magnitude rounded to the nearest 10^-6 (Number.prototype.toFixed
\* takes the larger n of two equally near), its integer part, ".", and six
\* digits.
toFixed6(x) ==
    LET magnitude == IF x < 0 THEN 0 - x ELSE x
        n == (magnitude + 5) \div 10
    IN  (IF x < 0 THEN "-" ELSE "") \o ToString(n \div 1000000) \o "."
          \o SixDigits(n % 1000000)

\* `${latitude.toFixed(6)}, ${longitude.toFixed(6)}`
CoordinateText(latitude, longitude) ==
    toFixed6(latitude) \o ", " \o toFixed6(longitude)

\* `${street || ''} ${city || ''} ${region || ''}`.trim() for fields that
\* are null, '' or a text without white space at its ends: trim removes the
\* blanks a missing street leaves in front and a missing region leaves
\* behind.
AddressText(address) ==
    LET part(v) == IF v = NULL THEN "" ELSE v
        street == part(address.street)
        city == part(address.city)
        region == part(address.region)
    IN  IF street = "" /\ city = "" THEN region
        ELSE IF street = "" /\ region = "" THEN city
        ELSE IF city = "" /\ region = "" THEN street
        ELSE IF street = "" THEN city \o " " \o region
        ELSE IF region = "" THEN street \o " " \o city
        ELSE street \o " " \o city \o " " \o region

\* reverseGeocode without the catch: a failing lookup is rethrown.
reverseGeocode_NoCatch(latitude, longitude, lookup) ==
    IF lookup = "throws"
    THEN [ text |-> "", thrown |-> TRUE ]
    ELSE IF Len(lookup) > 0
    THEN [ text |-> AddressText(lookup[1]), thrown |-> FALSE ]
    ELSE [ text |-> CoordinateText(latitude, longitude), thrown |-> FALSE ]

\* reverseGeocode(latitude, longitude): the text it returns and whether it
\* throws.  `lookup` is what Location.reverseGeocodeAsync does: "throws", or
\* the list of addresses it returns.
reverseGeocode(latitude, longitude, lookup) ==
    IF lookup = "throws"
    THEN [ text |-> CoordinateText(latitude, longitude), thrown |-> FALSE ]
    ELSE IF Len(lookup) > 0
    THEN [ text |-> AddressText(lookup[1]), thrown |-> FALSE ]
    ELSE [ text |-> CoordinateText(latitude, longitude), thrown |-> FALSE ]

\* The body of handleGeofenceEnter's try block.  `fault` is the platform
\* call that fails in this run ("none", "lookup", "dispatch", "update");
\* `elapsed` is the time that passes between the call and the
\* triggeredAt write.
handleGeofenceEnterTry(reminderId, fault, elapsed) ==
    LET same == [ rows |-> rows, notifications |-> notifications, now |-> now ]
        fail(why) == same @@ [ thrown |-> TRUE, outcome |-> why ]
    IN  IF db = "null" \/ fault = "lookup"
        THEN fail("lookup failed")
        ELSE LET reminder == getReminder(rows, reminderId)
             IN  IF reminder = NoReminder
                 THEN same @@ [ thrown |-> FALSE, outcome |-> "dropped" ]
                 ELSE IF ~reminder[1].isActive
                 THEN same @@ [ thrown |-> FALSE, outcome |-> "dropped" ]
                 ELSE LET sent == scheduleLocationNotification(
                                      notifications, reminder[1],
                                      fault # "dispatch")
                      IN  IF sent.thrown
                          THEN fail("dispatch failed")
                          ELSE IF fault = "update"
                          THEN [ rows |-> rows,
                                 notifications |-> sent.notifications,
                                 now |-> now + elapsed,
                                 thrown |-> TRUE,
                                 outcome |-> "update failed" ]
                          ELSE [ rows |-> markReminderAsTriggered(
                                              rows, reminderId, now + elapsed),
                                 notifications |-> sent.notifications,
                                 now |-> now + elapsed,
                                 thrown |-> FALSE,
                                 outcome |-> "triggered" ]

\* handleGeofenceEnter without the catch.
handleGeofenceEnter_NoCatch(reminderId, fault, elapsed) ==
    handleGeofenceEnterTry(reminderId, fault, elapsed)

\* handleGeofenceEnter: the try block with its catch, which logs the error
\* and returns.
handleGeofenceEnter(reminderId, fault, elapsed) ==
    [ handleGeofenceEnterTry(reminderId, fault, elapsed)
        EXCEPT !.thrown = FALSE ]

\* The task handing every invocation to handleGeofenceEnter.
geofencingTask_AnyEvent(type, id, fault, elapsed) ==
    handleGeofenceEnter(id, fault, elapsed)

\* The task defined under GEOFENCING_TASK_NAME, run on one event.
\* type "error" is an invocation that carries an error.
geofencingTask(type, id, fault, elapsed) ==
    LET same == [ rows |-> rows, notifications |-> notifications, now |-> now ]
    IN  IF type = "error"
        THEN same @@ [ thrown |-> FALSE, outcome |-> "task error" ]
        ELSE IF type = "Enter"
        THEN handleGeofenceEnter(id, fault, elapsed)
        ELSE same @@ [ thrown |-> FALSE, outcome |-> "ignored" ]

RegionIds(regions) == { r.identifier : r \in regions }

\* ----------------------------------------------------------------- Init

NoSync == [ call |-> "none", regions |-> <<>>, surfaced |-> "nothing" ]
NoTask == [ type |-> "none", id |-> "", fault |-> "none", outcome |-> "none",
            returned |-> TRUE ]
NoStore == [ op |-> "none", id |-> "", arg |-> << >>, thrown |-> FALSE ]

\* useState(100): the radius state of an EditReminderScreen before its
\* reminder is loaded (and of none mounted).
DefaultRadius == 100
\* useState(37.7749) and useState(-122.4194): its latitude and longitude
\* states then.
DefaultLatitude == 377749000
DefaultLongitude == -1224194000

Init ==
    /\ rows = EmptyTable
    /\ monitored = {}
    /\ notifications = << >>
    /\ notifPerm = "undetermined"
    /\ now = 0
    /\ db = "null"
    /\ isLocationServicesEnabled = FALSE
    /\ taskDefined = FALSE
    /\ isReady = FALSE
    /\ alert = "none"
    /\ bootLog = << >>
    /\ screen = "Away"
    /\ homeReminders = << >>
    /\ editReminderId = ""
    /\ editRadius = DefaultRadius
    /\ editLatitude = DefaultLatitude
    /\ editLongitude = DefaultLongitude
    /\ editAddress = ""
    /\ awaiting = {}
    /\ lastSync = NoSync
    /\ lastTask = NoTask
    /\ lastStore = NoStore

\* ------------------------------------------------------------------ App

\* initializeApp, run once by the mounted App: databaseService.initialize,
\* NotificationService.initialize, locationService.initialize, setIsReady.
\* dbOk: the database opens; notifAnswer: what the user answers to the
\* notification prompt; foreground: the status
\* requestForegroundPermissionsAsync returns.
initializeApp_Eager(dbOk, notifAnswer, foreground) ==
    LET notif == NotificationServiceInitialize(notifPerm, notifAnswer)
        loc == requestPermissions(foreground)
    IN  [ db |-> IF dbOk THEN "open" ELSE db,
          notifPerm |-> notif.status,
          isLocationServicesEnabled |-> loc.isLocationServicesEnabled,
          taskDefined |-> ~loc.thrown,
          isReady |-> TRUE,
          alert |-> IF ~dbOk \/ notif.thrown THEN "Initialization Error"
                    ELSE IF loc.thrown THEN "Location Permission Required"
                    ELSE alert,
          bootLog |-> <<"database", "notifications", "location">> ]

initializeApp(dbOk, notifAnswer, foreground) ==
    LET notif == NotificationServiceInitialize(notifPerm, notifAnswer)
        loc == requestPermissions(foreground)
        cold == [ db |-> db, notifPerm |-> notifPerm,
                  isLocationServicesEnabled |-> isLocationServicesEnabled,
                  taskDefined |-> taskDefined, isReady |-> isReady ]
    IN  IF ~dbOk
        THEN cold @@ [ alert |-> "Initialization Error",
                       bootLog |-> <<"database">> ]
        ELSE IF notif.thrown
        THEN [ cold EXCEPT !.db = "open", !.notifPerm = notif.status ] @@
             [ alert |-> "Initialization Error",
               bootLog |-> <<"database", "notifications">> ]
        ELSE IF loc.thrown
        THEN [ cold EXCEPT !.db = "open", !.notifPerm = notif.status,
                           !.isReady = TRUE ] @@
             [ alert |-> "Location Permission Required",
               bootLog |-> <<"database", "notifications", "location">> ]
        ELSE [ cold EXCEPT !.db = "open", !.notifPerm = notif.status,
                           !.isLocationServicesEnabled =
                               loc.isLocationServicesEnabled,
                           !.taskDefined = TRUE, !.isReady = TRUE ] @@
             [ alert |-> alert,
               bootLog |-> <<"database", "notifications", "location">> ]

InitializeApp(dbOk, notifAnswer, foreground) ==
    /\ bootLog = << >>
    /\ LET r == initializeApp(dbOk, notifAnswer, foreground)
       IN  /\ db' = r.db
           /\ notifPerm' = r.notifPerm
           /\ isLocationServicesEnabled' = r.isLocationServicesEnabled
           /\ taskDefined' = r.taskDefined
           /\ isReady' = r.isReady
           /\ alert' = r.alert
           /\ bootLog' = r.bootLog
    /\ lastSync' = NoSync /\ lastTask' = NoTask /\ lastStore' = NoStore
    /\ UNCHANGED <<rows, monitored, notifications, now, screen,
                   homeReminders, editReminderId, editRadius, editPlace, awaiting>>

\* The operating system ends the process and starts a new one (the user
\* reopens the app, or the platform relaunches it for a region event): the
\* JS state is new, the device's state is kept.
Relaunch ==
    /\ bootLog # << >>
    /\ db' = "null"
    /\ isLocationServicesEnabled' = FALSE
    /\ taskDefined' = FALSE
    /\ isReady' = FALSE
    /\ alert' = "none"
    /\ bootLog' = << >>
    /\ screen' = "Away"
    /\ homeReminders' = << >>
    /\ editReminderId' = ""
    /\ editRadius' = DefaultRadius
    /\ editLatitude' = DefaultLatitude
    /\ editLongitude' = DefaultLongitude
    /\ editAddress' = ""
    /\ awaiting' = {}
    /\ lastSync' = NoSync /\ lastTask' = NoTask /\ lastStore' = NoStore
    /\ UNCHANGED durable

\* ----------------------------------------------------------- HomeScreen

\* loadReminders on the store `table`: getAllReminders, setReminders,
\* startGeofencing.
loadReminders(table, platformOk) ==
    \E all \in getAllReminders(table) :
        LET sync == startGeofencing(all, platformOk)
        IN  /\ homeReminders' = all
            /\ monitored' = sync.monitored
            /\ lastSync' = sync.lastSync

\* useFocusEffect and onRefresh: HomeScreen gains focus (first render, a
\* tab switch, a screen above it closes) or is pulled to refresh.
HomeLoad(platformOk) ==
    /\ isReady /\ screen # "Edit"
    /\ screen' = "Home"
    /\ loadReminders(rows, platformOk)
    /\ lastTask' = NoTask /\ lastStore' = NoStore
    /\ UNCHANGED <<rows, notifications, notifPerm, now, db,
                   isLocationServicesEnabled, taskDefined, isReady, alert,
                   bootLog, editReminderId, editRadius, editPlace, awaiting>>

\* The user leaves HomeScreen (another tab, or a screen pushed above it).
HomeBlur ==
    /\ isReady /\ screen = "Home"
    /\ screen' = "Away"
    /\ homeReminders' = << >>
    /\ lastSync' = NoSync /\ lastTask' = NoTask /\ lastStore' = NoStore
    /\ UNCHANGED <<durable, db, isLocationServicesEnabled, taskDefined,
                   isReady, alert, bootLog, editReminderId, editRadius, editPlace, awaiting>>

\* handleToggleReminder(id, isActive) from the switch of card i.
HomeToggle(i, platformOk) ==
    /\ isReady /\ screen = "Home"
    /\ i \in DOMAIN homeReminders
    /\ rows' = updateReminder(rows, homeReminders[i].id,
                              [ isActive |-> Def(~homeReminders[i].isActive) ])
    /\ loadReminders(rows', platformOk)
    /\ lastTask' = NoTask /\ lastStore' = NoStore
    /\ UNCHANGED <<notifications, notifPerm, now, db,
                   isLocationServicesEnabled, taskDefined, isReady, alert,
                   bootLog, screen, editReminderId, editRadius, editPlace, awaiting>>

\* handleDeleteReminder(id) from card i, confirmed in its alert.
HomeDelete(i, platformOk) ==
    /\ isReady /\ screen = "Home"
    /\ i \in DOMAIN homeReminders
    /\ rows' = deleteReminder(rows, homeReminders[i].id)
    /\ loadReminders(rows', platformOk)
    /\ lastTask' = NoTask /\ lastStore' = NoStore
    /\ UNCHANGED <<notifications, notifPerm, now, db,
                   isLocationServicesEnabled, taskDefined, isReady, alert,
                   bootLog, screen, editReminderId, editRadius, editPlace, awaiting>>

\* ------------------------------------------------ ReminderDetailsScreen

\* handleToggleActive(isActive) on the reminder the screen loaded.
DetailsToggle(id) ==
    /\ isReady /\ screen = "Away"
    /\ id \in DOMAIN rows
    /\ rows' = updateReminder(rows, id,
                              [ isActive |-> Def(rows[id].isActive = 0) ])
    /\ lastSync' = NoSync /\ lastTask' = NoTask /\ lastStore' = NoStore
    /\ UNCHANGED <<monitored, notifications, notifPerm, now,
                   process>>

\* handleDelete, confirmed in its alert.
DetailsDelete(id) ==
    /\ isReady /\ screen = "Away"
    /\ id \in DOMAIN rows
    /\ rows' = deleteReminder(rows, id)
    /\ lastSync' = NoSync /\ lastTask' = NoTask /\ lastStore' = NoStore
    /\ UNCHANGED <<monitored, notifications, notifPerm, now,
                   process>>

\* --------------------------------------------------- EditReminderScreen

\* validateForm on the form's state.
validateForm(form) ==
    /\ form.title # ""
    /\ form.notificationTitle # ""
    /\ form.notificationBody # ""
    /\ ~(form.radius < 10 \/ form.radius > 1000)

\* The updates of handleSave carrying the diameter as radius.
SaveUpdates_Diameter(form) ==
    [ title |-> Def(form.title),
      description |-> IF form.description = "" THEN UNDEFINED
                      ELSE Def(form.description),
      latitude |-> Def(form.latitude),
      longitude |-> Def(form.longitude),
      radius |-> Def(2 * form.radius),
      address |-> Def(form.address),
      notificationTitle |-> Def(form.notificationTitle),
      notificationBody |-> Def(form.notificationBody) ]

\* The updates handleSave builds from the form's state.
SaveUpdates(form) ==
    [ title |-> Def(form.title),
      description |-> IF form.description = "" THEN UNDEFINED
                      ELSE Def(form.description),
      latitude |-> Def(form.latitude),
      longitude |-> Def(form.longitude),
      radius |-> Def(form.radius),
      address |-> Def(form.address),
      notificationTitle |-> Def(form.notificationTitle),
      notificationBody |-> Def(form.notificationBody) ]

\* A text is the sequence of its characters.
Digits == <<"0", "1", "2", "3", "4", "5", "6", "7", "8", "9">>
IsDigit(c) == \E d \in DOMAIN Digits : Digits[d] = c
DigitValue(c) == (CHOOSE d \in DOMAIN Digits : Digits[d] = c) - 1

\* The longest prefix of `text` made of decimal digits.
RECURSIVE DigitPrefix(_)
DigitPrefix(text) ==
    IF text = << >> \/ ~IsDigit(Head(text)) THEN << >>
    ELSE <<Head(text)>> \o DigitPrefix(Tail(text))

\* The number a sequence of decimal digits denotes.
RECURSIVE DigitsValue(_)
DigitsValue(digits) ==
    IF digits = << >> THEN 0
    ELSE 10 * DigitsValue(SubSeq(digits, 1, Len(digits) - 1))
           + DigitValue(digits[Len(digits)])

\* radius.toString(): the decimal text of an integer.
RECURSIVE NumberToString(_)
NumberToString(n) ==
    IF n < 0 THEN <<"-">> \o NumberToString(0 - n)
    ELSE IF n < 10 THEN <<Digits[n + 1]>>
    ELSE NumberToString(n \div 10) \o <<Digits[(n % 10) + 1]>>

\* A number or NaN: << >> is NaN, <<n>> is n.
NaN == << >>

\* parseInt(text) for a text without leading white space and without a
\* hexadecimal prefix: an optional sign, then the digits up to the first
\* character that is none; NaN when there is no digit.
parseInt(text) ==
    LET signed == text # << >> /\ Head(text) \in {"-", "+"}
        body == IF signed THEN Tail(text) ELSE text
        digits == DigitPrefix(body)
    IN  IF digits = << >> THEN NaN
        ELSE IF signed /\ Head(text) = "-" THEN <<0 - DigitsValue(digits)>>
        ELSE <<DigitsValue(digits)>>

\* The radius input's onChangeText without the clamp.
radiusOnChangeText_Unclamped(text) ==
    LET parsed == parseInt(text)
    IN  IF parsed = NaN \/ parsed = <<0>> THEN 0 ELSE parsed[1]

\* The radius input's onChangeText: the value it hands to setRadius,
\* Math.max(10, Math.min(1000, parseInt(text) || 0)).
radiusOnChangeText(text) ==
    LET parsed == parseInt(text)
        num == IF parsed = NaN \/ parsed = <<0>> THEN 0 ELSE parsed[1]
        least == IF 1000 < num THEN 1000 ELSE num
    IN  IF 10 > least THEN 10 ELSE least

\* The user opens EditReminderScreen for reminder `id` (from its card or
\* from the details screen); loadReminder sets the form's state from the
\* stored reminder.
EditOpen(id) ==
    /\ isReady /\ screen = "Away"
    /\ id \in DOMAIN rows
    /\ screen' = "Edit"
    /\ editReminderId' = id
    /\ LET reminder == getReminder(rows, id)[1]
       IN  /\ editRadius' = reminder.radius
           /\ editLatitude' = reminder.latitude
           /\ editLongitude' = reminder.longitude
           /\ editAddress' = IF reminder.address = NULL THEN ""
                             ELSE reminder.address
    /\ lastSync' = NoSync /\ lastTask' = NoTask /\ lastStore' = NoStore
    /\ UNCHANGED <<durable, db, isLocationServicesEnabled, taskDefined,
                   isReady, alert, bootLog, homeReminders, awaiting>>

\* handleMapPress: the user presses the map at (lat, lng); the address
\* state becomes what reverseGeocode returns, and stays as it is when
\* reverseGeocode throws.
EditMapPress(lat, lng, lookup) ==
    /\ isReady /\ screen = "Edit"
    /\ editLatitude' = lat
    /\ editLongitude' = lng
    /\ LET addressText == reverseGeocode(lat, lng, lookup)
       IN  editAddress' = IF addressText.thrown THEN editAddress
                          ELSE addressText.text
    /\ lastSync' = NoSync /\ lastTask' = NoTask /\ lastStore' = NoStore
    /\ UNCHANGED <<durable, db, isLocationServicesEnabled, taskDefined,
                   isReady, alert, bootLog, screen, homeReminders,
                   editReminderId, editRadius, awaiting>>

\* The text of the radius input changes to `text`.
EditRadiusText(text) ==
    /\ isReady /\ screen = "Edit"
    /\ editRadius' = radiusOnChangeText(text)
    /\ lastSync' = NoSync /\ lastTask' = NoTask /\ lastStore' = NoStore
    /\ UNCHANGED <<durable, db, isLocationServicesEnabled, taskDefined,
                   isReady, alert, bootLog, screen, homeReminders,
                   editReminderId, editPlace, awaiting>>

\* handleSave with the form's text fields holding `form`: validateForm,
\* updateReminder, and the success alert's OK goes back.
EditSave(form) ==
    LET state == [ form EXCEPT !.radius = editRadius,
                               !.latitude = editLatitude,
                               !.longitude = editLongitude,
                               !.address = editAddress ]
    IN  /\ isReady /\ screen = "Edit"
        /\ validateForm(state)
        /\ rows' = updateReminder(rows, editReminderId, SaveUpdates(state))
        /\ screen' = "Away"
        /\ editReminderId' = ""
        /\ editRadius' = DefaultRadius
        /\ editLatitude' = DefaultLatitude
        /\ editLongitude' = DefaultLongitude
        /\ editAddress' = ""
        /\ lastSync' = NoSync /\ lastTask' = NoTask /\ lastStore' = NoStore
        /\ UNCHANGED <<monitored, notifications, notifPerm, now, db,
                       isLocationServicesEnabled, taskDefined, isReady, alert,
                       bootLog, homeReminders, awaiting>>

\* ------------------------------------------------------- SettingsScreen

\* The table after handleClearAllData's loop: deleteReminder for every
\* reminder getAllReminders returned.
RECURSIVE DeleteAll(_, _)
DeleteAll(table, reminders) ==
    IF reminders = << >> THEN table
    ELSE DeleteAll(deleteReminder(table, Head(reminders).id), Tail(reminders))

\* handleClearAllData, confirmed in its alert.
ClearAllData ==
    /\ isReady /\ screen = "Away"
    /\ rows # EmptyTable
    /\ \E all \in getAllReminders(rows) : rows' = DeleteAll(rows, all)
    /\ lastSync' = NoSync /\ lastTask' = NoTask /\ lastStore' = NoStore
    /\ UNCHANGED <<monitored, notifications, notifPerm, now,
                   process>>

\* ---------------------------------------------------- AddReminderScreen

\* The add screen's save: databaseService.addReminder, then the
\* re-registration of the active regions.  `id` is the id generated
\* (Date.now() and a random suffix), `elapsed` the time passing before it.
AddSave(reminder, id, elapsed, platformOk) ==
    /\ isReady /\ screen = "Away"
    /\ id \notin DOMAIN rows
    /\ now + elapsed <= MaxTime
    /\ now' = now + elapsed
    /\ rows' = addReminder(rows, id, reminder, now')
    /\ \E all \in getAllReminders(rows') :
          LET sync == startGeofencing(all, platformOk)
          IN  /\ monitored' = sync.monitored
              /\ lastSync' = sync.lastSync
    /\ lastTask' = NoTask /\ lastStore' = NoStore
    /\ UNCHANGED <<notifications, notifPerm, process>>

\* ----------------------------------------------------- the region events

EventTypes == {"Enter", "Exit", "error"}
Faults == {"none", "lookup", "dispatch", "update"}

\* The platform delivers an event of a monitored region to the task.
GeofencingTask(type, id, fault, elapsed) ==
    /\ taskDefined
    /\ id \in RegionIds(monitored)
    /\ Len(notifications) < MaxNotifications
    /\ now + elapsed <= MaxTime
    /\ LET r == geofencingTask(type, id, fault, elapsed)
       IN  /\ rows' = r.rows
           /\ notifications' = r.notifications
           /\ now' = r.now
           /\ lastTask' = [ type |-> type, id |-> id, fault |-> fault,
                            outcome |-> r.outcome, returned |-> ~r.thrown ]
    /\ lastSync' = NoSync /\ lastStore' = NoStore
    /\ UNCHANGED <<monitored, notifPerm, process>>

\* The platform has an event of a monitored region for a process in which
\* no task is defined under GEOFENCING_TASK_NAME: nothing runs.
EventWithoutTask(type, id) ==
    /\ ~taskDefined
    /\ id \in RegionIds(monitored)
    /\ lastTask' = [ type |-> type, id |-> id, fault |-> "none",
                     outcome |-> "lost", returned |-> TRUE ]
    /\ lastSync' = NoSync /\ lastStore' = NoStore
    /\ UNCHANGED <<durable, process>>

Answers == {"granted", "denied"}
\* The integers entered into the radius input, and the texts the input is
\* set to: their decimal texts, the empty text, and texts with a character
\* that is no digit.
EnteredIntegers == { -5, 0, 5, 9, 11, 50, 999, 1001, 2000 }
RadiusTexts ==
    { NumberToString(n) : n \in EnteredIntegers }
       \cup { << >>, <<"m">>, <<"5", "0", "m">>, <<"+", "9">> }
Cards == 1..Cardinality(Ids)

\* The application in the foreground from its first launch: bootstrap and
\* the screens, on a platform that rejects a registration only for the
\* reason PlatformAccepts names.
Next ==
    \/ \E dbOk \in BOOLEAN, n \in Answers, l \in Answers :
          InitializeApp(dbOk, n, l)
    \/ Relaunch
    \/ HomeLoad(TRUE)
    \/ HomeBlur
    \/ \E i \in Cards : HomeToggle(i, TRUE)
    \/ \E i \in Cards : HomeDelete(i, TRUE)
    \/ \E id \in Ids : DetailsToggle(id)
    \/ \E id \in Ids : DetailsDelete(id)
    \/ \E id \in Ids : EditOpen(id)
    \/ \E form \in FieldSets : EditSave(form)
    \/ ClearAllData
    \/ \E f \in FieldSets, id \in Ids : AddSave(f, id, 0, TRUE)

Spec == Init /\ [][Next]_vars

\* ------------------------------------------------- the trigger pipeline

\* The reminder the store holds under `id` in InitTrigger.
FieldsOf(id) == IF id = "r1" THEN GrabKeys ELSE BuyMilk

\* A device whose store holds reminders created at time 0, any of them
\* switched off or deleted on the details screen since their regions were
\* registered, in a process that has just been launched.
InitTrigger ==
    /\ \E present \in SUBSET Ids : \E active \in SUBSET present :
          rows = [ id \in present |->
                     [ NewRow(FieldsOf(id), 0)
                         EXCEPT !.isActive = IF id \in active THEN 1 ELSE 0 ] ]
    /\ monitored =
          { GeofenceRegion(RowToReminder(id, NewRow(FieldsOf(id), 0))) :
              id \in Ids }
    /\ notifications = << >>
    /\ notifPerm = "granted"
    /\ now = 0
    /\ db = "null"
    /\ isLocationServicesEnabled = FALSE
    /\ taskDefined = FALSE
    /\ isReady = FALSE
    /\ alert = "none"
    /\ bootLog = << >>
    /\ screen = "Away"
    /\ homeReminders = << >>
    /\ editReminderId = ""
    /\ editRadius = DefaultRadius
    /\ editLatitude = DefaultLatitude
    /\ editLongitude = DefaultLongitude
    /\ editAddress = ""
    /\ awaiting = {}
    /\ lastSync = NoSync
    /\ lastTask = NoTask
    /\ lastStore = NoStore

\* Region events reaching a process that is launched, bootstraps and is
\* relaunched; a platform call of the handler may fail.
NextTrigger ==
    \/ InitializeApp(TRUE, "granted", "granted")
    \/ Relaunch
    \/ \E t \in EventTypes, id \in Ids, f \in Faults, e \in 0..1 :
          GeofencingTask(t, id, f, e)
    \/ \E t \in EventTypes, id \in Ids : EventWithoutTask(t, id)

SpecTrigger == InitTrigger /\ [][NextTrigger]_vars

\* The points pressed on the map, and what the platform's lookup does.
MapPoints ==
    { [ latitude |-> 377749004, longitude |-> -1224194006 ],
      [ latitude |-> -1, longitude |-> 1800000000 ] }
Lookups ==
    { "throws", << >>,
      << [ street |-> "Market St", city |-> "San Francisco",
           region |-> "CA" ] >>,
      << [ street |-> NULL, city |-> "Paris", region |-> NULL ] >> }

\* The edit screen with its map: reminders are added, opened, placed
\* elsewhere on the map and saved.
NextMap ==
    \/ InitializeApp(TRUE, "granted", "denied")
    \/ \E f \in FieldSets, id \in Ids : AddSave(f, id, 0, TRUE)
    \/ \E id \in Ids : EditOpen(id)
    \/ \E p \in MapPoints, lookup \in Lookups :
          EditMapPress(p.latitude, p.longitude, lookup)
    \/ \E form \in FieldSets : EditSave(form)

SpecMap == Init /\ [][NextMap]_vars

\* ------------------------------------------- the clients of the store

\* The field sets and the Partial<Reminder> values the clients pass.
StoreFieldSets == { GrabKeys, Gym }
Updates ==
    { << >>,
      [ description |-> UNDEFINED, triggeredAt |-> UNDEFINED ],
      [ isActive |-> Def(FALSE), title |-> UNDEFINED ],
      [ id |-> Def("r2"), isActive |-> Def(TRUE) ],
      [ createdAt |-> Def(0) ],
      [ triggeredAt |-> Def(At(0)) ] }

\* databaseService.addReminder(reminder), `elapsed` after the last call;
\* `id` is the id it generates.
StoreAdd(reminder, id, elapsed) ==
    /\ now + elapsed <= MaxTime
    /\ now' = now + elapsed
    /\ rows' = IF db = "null" THEN rows
               ELSE addReminder(rows, id, reminder, now')
    /\ lastStore' = [ op |-> "addReminder", id |-> id, arg |-> reminder,
                      thrown |-> (db = "null" \/ id \in DOMAIN rows) ]
    /\ lastSync' = NoSync /\ lastTask' = NoTask
    /\ UNCHANGED <<monitored, notifications, notifPerm, process>>

\* databaseService.updateReminder(id, updates)
StoreUpdate(id, updates) ==
    /\ rows' = IF db = "null" THEN rows ELSE updateReminder(rows, id, updates)
    /\ lastStore' = [ op |-> "updateReminder", id |-> id, arg |-> updates,
                      thrown |-> (db = "null") ]
    /\ lastSync' = NoSync /\ lastTask' = NoTask
    /\ UNCHANGED <<monitored, notifications, notifPerm, now, process>>

\* databaseService.deleteReminder(id)
StoreDelete(id) ==
    /\ rows' = IF db = "null" THEN rows ELSE deleteReminder(rows, id)
    /\ lastStore' = [ op |-> "deleteReminder", id |-> id, arg |-> << >>,
                      thrown |-> (db = "null") ]
    /\ lastSync' = NoSync /\ lastTask' = NoTask
    /\ UNCHANGED <<monitored, notifications, notifPerm, now, process>>

\* databaseService.markReminderAsTriggered(id), `elapsed` after the last
\* call.
StoreMark(id, elapsed) ==
    /\ now + elapsed <= MaxTime
    /\ now' = now + elapsed
    /\ rows' = IF db = "null" THEN rows
               ELSE markReminderAsTriggered(rows, id, now')
    /\ lastStore' = [ op |-> "markReminderAsTriggered", id |-> id,
                      arg |-> << >>, thrown |-> (db = "null") ]
    /\ lastSync' = NoSync /\ lastTask' = NoTask
    /\ UNCHANGED <<monitored, notifications, notifPerm, process>>

\* databaseService.getReminder(id): `arg` is what it returns.
StoreGet(id) ==
    /\ lastStore' = [ op |-> "getReminder", id |-> id,
                      arg |-> IF db = "null" THEN NoReminder
                              ELSE getReminder(rows, id),
                      thrown |-> (db = "null") ]
    /\ lastSync' = NoSync /\ lastTask' = NoTask
    /\ UNCHANGED <<durable, process>>

\* databaseService.getAllReminders(): `arg` is the list it returns.
StoreGetAll ==
    /\ \E all \in IF db = "null" THEN { << >> } ELSE getAllReminders(rows) :
          lastStore' = [ op |-> "getAllReminders", id |-> "", arg |-> all,
                         thrown |-> (db = "null") ]
    /\ lastSync' = NoSync /\ lastTask' = NoTask
    /\ UNCHANGED <<durable, process>>

\* The store under every call of its clients, before and after bootstrap
\* has opened the database.
NextStore ==
    \/ InitializeApp(TRUE, "granted", "denied")
    \/ \E f \in StoreFieldSets, id \in Ids, e \in 0..1 : StoreAdd(f, id, e)
    \/ \E id \in Ids, u \in Updates : StoreUpdate(id, u)
    \/ \E id \in Ids : StoreDelete(id)
    \/ \E id \in Ids, e \in 0..1 : StoreMark(id, e)
    \/ \E id \in Ids : StoreGet(id)
    \/ StoreGetAll

SpecStore == Init /\ [][NextStore]_vars

\* -------------------------------------------- the platform's rejections

\* HomeScreen on a platform that may reject a registration, as it does when
\* the regions exceed its ceiling.
NextLimit ==
    \/ InitializeApp(TRUE, "granted", "granted")
    \/ \E f \in FieldSets, id \in Ids, ok \in BOOLEAN : AddSave(f, id, 0, ok)
    \/ \E ok \in BOOLEAN : HomeLoad(ok)
    \/ HomeBlur
    \/ \E i \in Cards, ok \in BOOLEAN : HomeToggle(i, ok)

SpecLimit == Init /\ [][NextLimit]_vars

\* ------------------------------------------------------- the data entry

\* The screens that enter and edit reminders, on a device whose user has
\* declined the location permission (no registration is made): the radius
\* input takes any of RadiusTexts.
NextForm ==
    \/ InitializeApp(TRUE, "granted", "denied")
    \/ \E f \in FieldSets, id \in Ids : AddSave(f, id, 0, TRUE)
    \/ \E id \in Ids : EditOpen(id)
    \/ \E text \in RadiusTexts : EditRadiusText(text)
    \/ \E form \in FieldSets : EditSave(form)
    \/ \E id \in Ids : DetailsToggle(id)
    \/ \E id \in Ids : DetailsDelete(id)

SpecForm == Init /\ [][NextForm]_vars

\* ------------------------------------------------- overlapping reloads

\* At most this many loadReminders runs are suspended at once.
MaxOverlap == 2

\* A loadReminders run suspended at `await getAllReminders()`, the query
\* having returned `all` (runs holding the same result resume alike).
LoadRun(all) == [ run |-> "loadReminders", allReminders |-> all ]

\* loadReminders up to its first await: the query getAllReminders makes on
\* the store `table`.
loadRemindersRead(table) ==
    /\ Cardinality(awaiting) < MaxOverlap
    /\ \E all \in getAllReminders(table) :
          awaiting' = awaiting \cup {LoadRun(all)}

\* useFocusEffect and onRefresh, up to loadReminders' first await.
HomeLoadRead ==
    /\ isReady /\ screen # "Edit"
    /\ screen' = "Home"
    /\ loadRemindersRead(rows)
    /\ lastSync' = NoSync /\ lastTask' = NoTask /\ lastStore' = NoStore
    /\ UNCHANGED <<durable, db, isLocationServicesEnabled, taskDefined,
                   isReady, alert, bootLog, homeReminders, editReminderId,
                   editRadius, editPlace>>

\* handleToggleReminder from the switch of card i, up to loadReminders'
\* first await.
HomeToggleRead(i) ==
    /\ isReady /\ screen = "Home"
    /\ i \in DOMAIN homeReminders
    /\ rows' = updateReminder(rows, homeReminders[i].id,
                              [ isActive |-> Def(~homeReminders[i].isActive) ])
    /\ loadRemindersRead(rows')
    /\ lastSync' = NoSync /\ lastTask' = NoTask /\ lastStore' = NoStore
    /\ UNCHANGED <<monitored, notifications, notifPerm, now, db,
                   isLocationServicesEnabled, taskDefined, isReady, alert,
                   bootLog, screen, homeReminders, editReminderId,
                   editRadius, editPlace>>

\* handleDeleteReminder from card i, up to loadReminders' first await.
HomeDeleteRead(i) ==
    /\ isReady /\ screen = "Home"
    /\ i \in DOMAIN homeReminders
    /\ rows' = deleteReminder(rows, homeReminders[i].id)
    /\ loadRemindersRead(rows')
    /\ lastSync' = NoSync /\ lastTask' = NoTask /\ lastStore' = NoStore
    /\ UNCHANGED <<monitored, notifications, notifPerm, now, db,
                   isLocationServicesEnabled, taskDefined, isReady, alert,
                   bootLog, screen, homeReminders, editReminderId,
                   editRadius, editPlace>>

\* The suspended loadReminders run `load` resumes: setReminders, then
\* startGeofencing with what its query returned.
HomeLoadResume(load, platformOk) ==
    /\ load \in awaiting /\ load.run = "loadReminders"
    /\ awaiting' = awaiting \ {load}
    /\ homeReminders' = load.allReminders
    /\ LET sync == startGeofencing(load.allReminders, platformOk)
       IN  /\ monitored' = sync.monitored
           /\ lastSync' = sync.lastSync
    /\ lastTask' = NoTask /\ lastStore' = NoStore
    /\ UNCHANGED <<rows, notifications, notifPerm, now, db,
                   isLocationServicesEnabled, taskDefined, isReady, alert,
                   bootLog, screen, editReminderId, editRadius, editPlace>>

\* HomeScreen with its reloads suspended at their await, resuming in any
\* order.
NextOverlap ==
    \/ InitializeApp(TRUE, "granted", "granted")
    \/ \E id \in Ids : AddSave(FieldsOf(id), id, 0, TRUE)
    \/ HomeLoadRead
    \/ \E i \in Cards : HomeToggleRead(i)
    \/ \E i \in Cards : HomeDeleteRead(i)
    \/ \E load \in awaiting : HomeLoadResume(load, TRUE)

SpecOverlap == Init /\ [][NextOverlap]_vars

\* ------------------------------------- the handler beside the screens

\* A handleGeofenceEnter run suspended at an await: `at` is the call it
\* resumes with ("dispatch": scheduleLocationNotification, "mark":
\* markReminderAsTriggered), `reminder` is what its getReminder returned.
EnterRun(at, reminder) ==
    [ run |-> "handleGeofenceEnter", at |-> at, reminder |-> reminder ]

\* What a step of a handleGeofenceEnter run for `id` did.
EnterStep(id, outcome, returned) ==
    [ type |-> "Enter", id |-> id, fault |-> "none", outcome |-> outcome,
      returned |-> returned ]

\* The task runs on an Enter event of region `id`, no other run of it
\* being suspended: handleGeofenceEnter up to the await after getReminder,
\* which ends the run when there is no such reminder or it is inactive.
EnterLookup(id) ==
    /\ taskDefined /\ db = "open"
    /\ id \in RegionIds(monitored)
    /\ awaiting = {}
    /\ LET reminder == getReminder(rows, id)
       IN  IF reminder # NoReminder /\ reminder[1].isActive
           THEN /\ awaiting' = awaiting \cup {EnterRun("dispatch", reminder[1])}
                /\ lastTask' = EnterStep(id, "looked up", FALSE)
           ELSE /\ awaiting' = awaiting
                /\ lastTask' = EnterStep(id, "dropped", TRUE)
    /\ lastSync' = NoSync /\ lastStore' = NoStore
    /\ UNCHANGED <<durable, db, isLocationServicesEnabled, taskDefined,
                   isReady, alert, bootLog, screen, homeReminders,
                   editReminderId, editRadius, editPlace>>

\* The run resumes with scheduleLocationNotification(reminder); the catch
\* ends the run when the call throws.
EnterDispatch(enter, platformOk) ==
    /\ enter \in awaiting
    /\ enter.run = "handleGeofenceEnter" /\ enter.at = "dispatch"
    /\ Len(notifications) < MaxNotifications
    /\ LET sent == scheduleLocationNotification(notifications, enter.reminder,
                                                platformOk)
       IN  /\ notifications' = sent.notifications
           /\ IF sent.thrown
              THEN /\ awaiting' = awaiting \ {enter}
                   /\ lastTask' = EnterStep(enter.reminder.id,
                                            "dispatch failed", TRUE)
              ELSE /\ awaiting' = (awaiting \ {enter})
                                     \cup {EnterRun("mark", enter.reminder)}
                   /\ lastTask' = EnterStep(enter.reminder.id,
                                            "dispatched", FALSE)
    /\ lastSync' = NoSync /\ lastStore' = NoStore
    /\ UNCHANGED <<rows, monitored, notifPerm, now, db,
                   isLocationServicesEnabled, taskDefined, isReady, alert,
                   bootLog, screen, homeReminders, editReminderId,
                   editRadius, editPlace>>

\* The run resumes with markReminderAsTriggered(reminderId), `elapsed`
\* after the step before.
EnterMark(enter, elapsed) ==
    /\ enter \in awaiting
    /\ enter.run = "handleGeofenceEnter" /\ enter.at = "mark"
    /\ now + elapsed <= MaxTime
    /\ now' = now + elapsed
    /\ rows' = markReminderAsTriggered(rows, enter.reminder.id, now')
    /\ awaiting' = awaiting \ {enter}
    /\ lastTask' = EnterStep(enter.reminder.id, "triggered", TRUE)
    /\ lastSync' = NoSync /\ lastStore' = NoStore
    /\ UNCHANGED <<monitored, notifications, notifPerm, db,
                   isLocationServicesEnabled, taskDefined, isReady, alert,
                   bootLog, screen, homeReminders, editReminderId,
                   editRadius, editPlace>>

\* Region events handled while the user switches reminders off and on,
\* deletes them and saves edits of them: the handler's awaits and the
\* screens' writes in any order.
NextRace ==
    \/ InitializeApp(TRUE, "granted", "granted")
    \/ \E id \in Ids : EnterLookup(id)
    \/ \E enter \in awaiting, ok \in BOOLEAN : EnterDispatch(enter, ok)
    \/ \E enter \in awaiting, e \in 0..1 : EnterMark(enter, e)
    \/ \E id \in Ids : DetailsToggle(id)
    \/ \E id \in Ids : DetailsDelete(id)
    \/ \E id \in Ids : EditOpen(id)
    \/ EditSave(Gym)

SpecRace == InitTrigger /\ [][NextRace]_vars

\* ---------------------------------------------------------------- claims

\* The step ran the task on an Enter event for `id`, with no platform call
\* failing in the run.
EnterRan(id) ==
    /\ taskDefined
    /\ lastTask'.type = "Enter" /\ lastTask'.id = id
    /\ lastTask'.fault = "none"

\* C1: an Enter event for a stored, active reminder dispatches exactly one
\* notification, with that reminder's notificationTitle and
\* notificationBody, and when the handler has returned the reminder's
\* triggeredAt is set to a time not earlier than the time of the call.
C1_EnterDispatchesAndMarks ==
    [][ \A id \in Ids :
          (EnterRan(id) /\ id \in ActiveIds) =>
             /\ Len(notifications') = Len(notifications) + 1
             /\ SubSeq(notifications', 1, Len(notifications)) = notifications
             /\ notifications'[Len(notifications')].title
                   = rows[id].notificationTitle
             /\ notifications'[Len(notifications')].body
                   = rows[id].notificationBody
             /\ lastTask'.returned
             /\ id \in DOMAIN rows'
             /\ rows'[id].triggeredAt # NoTime
             /\ rows'[id].triggeredAt[1] >= now
             /\ rows'[id].triggeredAt[1] <= now' ]_vars

\* An Enter event was handled some time after the process was ready: the
\* reminder is marked with the later time and its notification is there.
C1_Witness ==
    /\ lastTask.type = "Enter" /\ lastTask.outcome = "triggered"
    /\ now > 0
    /\ rows[lastTask.id].triggeredAt = At(now)
    /\ Len(notifications) = 1
    /\ notifications[1].reminderId = lastTask.id

\* C2: an Enter event whose id matches no stored reminder, or an inactive
\* one, dispatches no notification, raises no error and leaves every stored
\* reminder unchanged, whatever platform call would have failed.
C2_InactiveOrMissingDropped ==
    [][ \A id \in Ids :
          ( /\ taskDefined
            /\ lastTask'.type = "Enter" /\ lastTask'.id = id
            /\ id \notin ActiveIds ) =>
             /\ notifications' = notifications
             /\ rows' = rows
             /\ lastTask'.returned ]_vars

\* An Enter event for a stored, inactive reminder was dropped while another
\* reminder is stored.
C2_Witness ==
    /\ lastTask.type = "Enter" /\ lastTask.outcome = "dropped"
    /\ lastTask.id \in DOMAIN rows
    /\ rows[lastTask.id].isActive = 0
    /\ DOMAIN rows = Ids

\* C3: no dedup window and no cooldown: an Enter event for an active
\* reminder that has been triggered before, even at the very same time,
\* completes without error, dispatches one more notification and leaves
\* triggeredAt at the time this call wrote, which is not earlier than the
\* time it replaces.  (So N events dispatch N notifications.)
C3_EveryEnterRetriggers ==
    [][ \A id \in Ids :
          ( /\ EnterRan(id) /\ id \in ActiveIds
            /\ rows[id].triggeredAt # NoTime ) =>
             /\ lastTask'.returned
             /\ lastTask'.outcome = "triggered"
             /\ Len(notifications') = Len(notifications) + 1
             /\ notifications'[Len(notifications')].reminderId = id
             /\ rows'[id].triggeredAt = At(now')
             /\ now' >= rows[id].triggeredAt[1] ]_vars

\* Two Enter events for the same reminder, the second one later than the
\* first: two notifications for it, triggeredAt at the later time.
C3_Witness ==
    /\ lastTask.type = "Enter" /\ lastTask.outcome = "triggered"
    /\ Len(notifications) = 2
    /\ notifications[1].reminderId = lastTask.id
    /\ notifications[2].reminderId = lastTask.id
    /\ now = 1
    /\ rows[lastTask.id].triggeredAt = At(1)

\* C4: after any sequence of user operations the identifiers of the regions
\* registered with the platform are the ids of the active reminders.
C4_MonitoredEqualsActive ==
    (isReady /\ isLocationServicesEnabled) =>
        RegionIds(monitored) = ActiveIds

\* C5: with permission granted, switching a reminder off on the home list
\* (updateReminder, then startGeofencing(getAllReminders())) leaves the
\* monitored set without its region, and switching it on puts it back.
C5_ToggleSynchronizes ==
    [][ \A i \in Cards :
          (isLocationServicesEnabled /\ HomeToggle(i, TRUE)) =>
             IF homeReminders[i].isActive
             THEN homeReminders[i].id \notin RegionIds(monitored')
             ELSE homeReminders[i].id \in RegionIds(monitored') ]_vars

\* C6: with permission granted, startGeofencing hands the platform exactly
\* the regions of the active reminders of its input, and the monitored set
\* afterwards is exactly that list.
C6_RegistersExactlyActive ==
    (isLocationServicesEnabled /\ lastSync.call # "none") =>
        /\ RegionIds(Range(lastSync.regions)) = ActiveIds
        /\ \A r \in Range(lastSync.regions) :
              /\ r.latitude = rows[r.identifier].latitude
              /\ r.longitude = rows[r.identifier].longitude
              /\ r.radius = rows[r.identifier].radius
        /\ Len(lastSync.regions) = Cardinality(ActiveIds)
        /\ monitored = Range(lastSync.regions)

\* C7: without the permission (isLocationServicesEnabled is false) a
\* startGeofencing call registers nothing with the platform, leaves the
\* monitored set as it is and returns: loadReminders raises no alert and
\* HomeScreen shows the stored reminders.
C7_NoPermissionNoOp ==
    [][ (~isLocationServicesEnabled /\ lastSync' # NoSync) =>
           /\ lastSync'.call = "skipped"
           /\ monitored' = monitored
           /\ alert' = alert
           /\ (screen' = "Home" =>
                  homeReminders' \in getAllReminders(rows')) ]_vars

\* HomeScreen shows a reminder after a load that skipped the registration,
\* while regions of an earlier process are still monitored.
C7_Witness ==
    /\ isReady /\ ~isLocationServicesEnabled
    /\ lastSync.call = "skipped"
    /\ screen = "Home" /\ Len(homeReminders) > 0
    /\ monitored # {}

\* C8: the geofencing task returns normally for every event: a failing
\* store lookup, notification dispatch or triggeredAt update is caught.
C8_TaskNeverThrows == lastTask.returned

\* The triggeredAt update failed after the notification was dispatched,
\* and the task returned.
C8_Witness ==
    /\ lastTask.type = "Enter" /\ lastTask.fault = "update"
    /\ lastTask.outcome = "update failed"
    /\ lastTask.returned
    /\ Len(notifications) > 0

\* C9: an Enter event for an active reminder that reaches a freshly
\* relaunched process, before any initialize() has run in it, is handled:
\* the notification is dispatched and triggeredAt is set.
C9_ColdEventHandled ==
    \A id \in ActiveIds :
        (bootLog = << >> /\ lastTask.type = "Enter" /\ lastTask.id = id) =>
            /\ lastTask.outcome = "triggered"
            /\ rows[id].triggeredAt # NoTime

\* C10: when NotificationService.initialize fails because the user declined,
\* bootstrap still initializes location services and reaches the ready
\* state.
C10_NotificationDenialNotFatal ==
    ("notifications" \in Range(bootLog) /\ notifPerm # "granted") =>
        /\ "location" \in Range(bootLog)
        /\ isReady
        /\ alert # "Initialization Error"

\* What a client reads back for an optional text it gave: the text itself,
\* and no text (null) for one it did not give.
SameOptionalText(stored, given) ==
    IF given = Missing THEN stored = NULL ELSE stored = given

\* The step is the call `op` of a client of the store, on an open store.
StoreCall(op) == db = "open" /\ lastStore'.op = op

\* C11: for every valid field set, addReminder followed by getReminder on
\* the returned id yields a record whose nine entered fields equal the
\* input, description and address also when they are empty or not given,
\* with a non-empty id, a createdAt (the time of the call) and no
\* triggeredAt.
C11_AddThenGet ==
    [][ (StoreCall("addReminder") /\ ~lastStore'.thrown) =>
          LET f == lastStore'.arg
              got == getReminder(rows', lastStore'.id)
          IN  /\ got # NoReminder
              /\ got[1].id = lastStore'.id /\ got[1].id # ""
              /\ got[1].title = f.title
              /\ SameOptionalText(got[1].description, f.description)
              /\ got[1].latitude = f.latitude
              /\ got[1].longitude = f.longitude
              /\ got[1].radius = f.radius
              /\ SameOptionalText(got[1].address, f.address)
              /\ got[1].isActive = f.isActive
              /\ got[1].notificationTitle = f.notificationTitle
              /\ got[1].notificationBody = f.notificationBody
              /\ got[1].createdAt = now'
              /\ got[1].triggeredAt = NoTime ]_vars

\* C12: on an open store, deleteReminder(id) followed by getReminder(id)
\* returns null; deleteReminder returns without error whether or not a
\* record has this id, and leaves every other record as it is (so a call
\* for an id that is not stored changes nothing).
C12_DeleteThenGet ==
    [][ StoreCall("deleteReminder") =>
          LET id == lastStore'.id
          IN  /\ ~lastStore'.thrown
              /\ getReminder(rows', id) = NoReminder
              /\ DOMAIN rows' = DOMAIN rows \ {id}
              /\ \A other \in DOMAIN rows \ {id} : rows'[other] = rows[other]
              /\ (id \notin DOMAIN rows => rows' = rows) ]_vars

\* deleteReminder has returned and the other reminder is still stored.
C12_Witness ==
    /\ lastStore.op = "deleteReminder" /\ ~lastStore.thrown
    /\ DOMAIN rows = Ids \ {lastStore.id}
    /\ getReminder(rows, lastStore.id) = NoReminder

\* The column value updateReminder binds for a defined value of key `k`.
Bound(k, value) == IF k = "isActive" THEN (IF value THEN 1 ELSE 0) ELSE value

\* C13: updateReminder(id, updates) on a stored record sets exactly the
\* columns whose keys are in `updates` with a defined value (but 'id') and
\* leaves every other column of the record, and every other record, as it
\* is; with no key or only undefined values it writes nothing and returns.
C13_UpdateFrame ==
    [][ (StoreCall("updateReminder") /\ lastStore'.id \in DOMAIN rows) =>
          LET id == lastStore'.id
              u == lastStore'.arg
          IN  /\ ~lastStore'.thrown
              /\ DOMAIN rows' = DOMAIN rows
              /\ \A other \in DOMAIN rows \ {id} : rows'[other] = rows[other]
              /\ \A c \in DOMAIN rows[id] :
                    IF c \in DOMAIN u /\ u[c] # UNDEFINED
                    THEN rows'[id][c] = Bound(c, u[c][1])
                    ELSE rows'[id][c] = rows[id][c]
              /\ ((\A k \in DOMAIN u : u[k] = UNDEFINED) => rows' = rows) ]_vars

\* updateReminder has returned from a call whose only values are undefined,
\* for a record that has a description and a triggeredAt.
C13_Witness ==
    /\ lastStore.op = "updateReminder" /\ ~lastStore.thrown
    /\ lastStore.arg = [ description |-> UNDEFINED, triggeredAt |-> UNDEFINED ]
    /\ lastStore.id \in DOMAIN rows
    /\ rows[lastStore.id].description # NULL
    /\ rows[lastStore.id].triggeredAt # NoTime
    /\ DOMAIN rows = Ids

\* C14: on an open store, updateReminder and markReminderAsTriggered
\* called with an id that no record has return without error, create no
\* record and change no record.
C14_UnknownIdNoOp ==
    [][ ( /\ StoreCall("updateReminder") \/ StoreCall("markReminderAsTriggered")
          /\ lastStore'.id \notin DOMAIN rows ) =>
             /\ ~lastStore'.thrown
             /\ rows' = rows ]_vars

\* markReminderAsTriggered has returned from a call for an id that is not
\* stored, while another reminder is, still never triggered.
C14_Witness ==
    /\ lastStore.op = "markReminderAsTriggered" /\ ~lastStore.thrown
    /\ db = "open"
    /\ lastStore.id \notin DOMAIN rows
    /\ \E other \in DOMAIN rows : rows[other].triggeredAt = NoTime

\* C15: ids are unique and never reassigned.  The reminders the store
\* returns have pairwise different ids; addReminder generating an id a
\* record already has fails and leaves that record as it is;
\* updateReminder ignores an 'id' key: the record stays under its id and no
\* record appears or changes under the id given; and only addReminder adds
\* an id, only deleteReminder removes one.
C15_IdsUniqueAndFixed ==
    [][ /\ \A all \in getAllReminders(rows') :
              \A i, j \in DOMAIN all : i # j => all[i].id # all[j].id
        /\ (StoreCall("addReminder") /\ lastStore'.id \in DOMAIN rows) =>
              lastStore'.thrown /\ rows' = rows
        /\ ( /\ StoreCall("updateReminder")
             /\ "id" \in DOMAIN lastStore'.arg ) =>
              LET given == lastStore'.arg["id"][1]
              IN  /\ DOMAIN rows' = DOMAIN rows
                  /\ (given # lastStore'.id /\ given \in DOMAIN rows)
                        => rows'[given] = rows[given]
        /\ \A id \in DOMAIN rows' \ DOMAIN rows :
              lastStore'.op = "addReminder" /\ lastStore'.id = id
        /\ \A id \in DOMAIN rows \ DOMAIN rows' :
              lastStore'.op = "deleteReminder" /\ lastStore'.id = id ]_vars

\* addReminder has failed on an id that a different reminder has, and that
\* reminder is still there.
C15_Witness ==
    /\ lastStore.op = "addReminder" /\ lastStore.thrown
    /\ db = "open"
    /\ lastStore.id \in DOMAIN rows
    /\ rows[lastStore.id].title # lastStore.arg.title
    /\ DOMAIN rows = Ids

\* C16: createdAt is set once by addReminder and never changes: whatever
\* operation is made (updateReminder with any Partial<Reminder>,
\* markReminderAsTriggered, an edit, a toggle), a record that is still
\* stored has the createdAt it had.
C16_CreatedAtImmutable ==
    [][ \A id \in DOMAIN rows \cap DOMAIN rows' :
          rows'[id].createdAt = rows[id].createdAt ]_vars

\* C17: once a reminder's triggeredAt is set, nothing but deleting the
\* record unsets it, and every write to it stores a time not earlier than
\* the one it replaces; an edit or a toggle (an updateReminder without a
\* triggeredAt key) leaves it unchanged.
C17_TriggeredAtMonotonic ==
    [][ \A id \in DOMAIN rows \cap DOMAIN rows' :
          /\ rows[id].triggeredAt # NoTime =>
                /\ rows'[id].triggeredAt # NoTime
                /\ rows'[id].triggeredAt[1] >= rows[id].triggeredAt[1]
          /\ ( /\ lastStore'.op = "updateReminder"
               /\ "triggeredAt" \notin DOMAIN lastStore'.arg ) =>
                rows'[id].triggeredAt = rows[id].triggeredAt ]_vars

Clamped(n) ==
    LET least == IF n > 1000 THEN 1000 ELSE n
    IN  IF least < 10 THEN 10 ELSE least

\* C19: the radius input clamps instead of rejecting: when the integer n is
\* entered the form's radius becomes max(10, min(1000, n)), validateForm
\* accepts it, and handleSave stores exactly the form's radius.
C19_RadiusInputClamps ==
    [][ /\ \A n \in EnteredIntegers :
              EditRadiusText(NumberToString(n)) =>
                 /\ editRadius' = Clamped(n)
                 /\ \A f \in FieldSets :
                       validateForm([ f EXCEPT !.radius = editRadius' ])
        /\ (screen = "Edit" /\ screen' = "Away" /\ isReady') =>
              /\ editReminderId \in DOMAIN rows'
              /\ rows'[editReminderId].radius = editRadius ]_vars

\* The reminder saved after 5 (or less) was entered is stored at 10, and on
\* its edit screen 2000 (or 1001) has now been entered.
C19_Witness ==
    /\ screen = "Edit"
    /\ editRadius = 1000
    /\ editReminderId \in DOMAIN rows
    /\ rows[editReminderId].radius = 10

\* C20: getAllReminders returns every stored reminder exactly once, each
\* as getReminder returns it, ordered by createdAt descending, and the
\* empty list when nothing is stored.
C20_GetAllOrdered ==
    [][ StoreCall("getAllReminders") =>
          LET all == lastStore'.arg
          IN  /\ ~lastStore'.thrown
              /\ Len(all) = Cardinality(DOMAIN rows)
              /\ \A id \in DOMAIN rows :
                    \E i \in DOMAIN all :
                        /\ <<all[i]>> = getReminder(rows, id)
                        /\ \A j \in DOMAIN all : all[j].id = id => j = i
              /\ \A i \in 1..(Len(all) - 1) :
                    all[i].createdAt >= all[i + 1].createdAt
              /\ (rows = EmptyTable => all = << >>) ]_vars

\* getAllReminders has returned two reminders, the newer one first.
C20_Witness ==
    /\ lastStore.op = "getAllReminders" /\ ~lastStore.thrown
    /\ Len(lastStore.arg) = 2
    /\ lastStore.arg[1].createdAt > lastStore.arg[2].createdAt
    /\ lastStore.arg[1].id # lastStore.arg[2].id

\* C21: on an open store getReminder(id) never raises: it returns null for
\* every id that no record has, and for every id a record has it returns
\* that record, with isActive as a boolean.
C21_GetNeverRaises ==
    [][ StoreCall("getReminder") =>
          LET id == lastStore'.id
              got == lastStore'.arg
          IN  /\ ~lastStore'.thrown
              /\ id \notin DOMAIN rows => got = NoReminder
              /\ id \in DOMAIN rows =>
                    /\ got # NoReminder
                    /\ got[1].id = id
                    /\ got[1].isActive = (rows[id].isActive = 1)
                    /\ \A c \in DOMAIN rows[id] \ {"isActive"} :
                          got[1][c] = rows[id][c] ]_vars

\* getReminder has returned null for an id that is not stored while another
\* reminder is.
C21_Witness ==
    /\ lastStore.op = "getReminder" /\ ~lastStore.thrown
    /\ db = "open"
    /\ lastStore.id \notin DOMAIN rows
    /\ lastStore.arg = NoReminder
    /\ rows # EmptyTable

\* C22: reverseGeocode never raises, and whenever the platform's lookup
\* throws or returns no address it returns the latitude and the longitude,
\* each with 6 decimals, separated by ", ": handleMapPress then shows this
\* text as the address.
C22_GeocodeFallback ==
    [][ \A p \in MapPoints, lookup \in Lookups :
          EditMapPress(p.latitude, p.longitude, lookup) =>
             /\ ~reverseGeocode(p.latitude, p.longitude, lookup).thrown
             /\ (lookup = "throws" \/ lookup = << >>) =>
                   /\ editAddress' =
                         toFixed6(p.latitude) \o ", " \o toFixed6(p.longitude)
                   /\ p.latitude = 377749004 =>
                         editAddress' = "37.774900, -122.419401"
                   /\ p.latitude = -1 =>
                         editAddress' = "-0.000000, 180.000000" ]_vars

\* A reminder was saved with the coordinates text as its address, after the
\* lookup for the point pressed had failed.
C22_Witness ==
    /\ screen = "Away"
    /\ \E id \in DOMAIN rows :
          /\ rows[id].address = "37.774900, -122.419401"
          /\ rows[id].latitude = 377749004
          /\ rows[id].longitude = -1224194006

\* C23: scheduleLocationNotification issues exactly one notification, with
\* trigger null (immediate), the reminder's notificationTitle and
\* notificationBody and its id as metadata, and returns the identifier the
\* platform gave it; when the platform call fails it throws the platform's
\* error, returns no identifier and nothing is delivered.
C23_DispatchImmediate ==
    [][ \A id \in Ids :
          ( /\ taskDefined /\ id \in ActiveIds
            /\ lastTask'.type = "Enter" /\ lastTask'.id = id
            /\ lastTask'.fault # "lookup" ) =>
             LET reminder == getReminder(rows, id)[1]
                 sent == scheduleLocationNotification(
                             notifications, reminder,
                             lastTask'.fault # "dispatch")
             IN  /\ notifications' = sent.notifications
                 /\ IF lastTask'.fault # "dispatch"
                    THEN /\ ~sent.thrown
                         /\ Len(notifications') = Len(notifications) + 1
                         /\ SubSeq(notifications', 1, Len(notifications))
                               = notifications
                         /\ LET issued == notifications'[Len(notifications')]
                            IN  /\ issued.trigger = "null"
                                /\ issued.title = rows[id].notificationTitle
                                /\ issued.body = rows[id].notificationBody
                                /\ issued.reminderId = id
                                /\ issued.type = "location-reminder"
                                /\ sent.notificationId = <<issued.identifier>>
                    ELSE /\ sent.thrown
                         /\ sent.error = "platform error"
                         /\ sent.notificationId = << >>
                         /\ notifications' = notifications ]_vars

\* The platform refused the second notification of a reminder whose first
\* one was delivered.
C23_Witness ==
    /\ lastTask.type = "Enter" /\ lastTask.fault = "dispatch"
    /\ lastTask.outcome = "dispatch failed"
    /\ Len(notifications) = 1
    /\ notifications[1].reminderId = lastTask.id
    /\ notifications[1].identifier = 1
    /\ notifications[1].trigger = "null"

\* C24: when the platform rejects a registration of at least one region
\* (as it does when the active set exceeds its ceiling), startGeofencing
\* surfaces a condition to its caller: the caller can tell the rejected
\* registration from a successful one.
C24_RegionLimitSurfaced ==
    (lastSync.call = "rejected" /\ Len(lastSync.regions) > 0) =>
        lastSync.surfaced # "nothing"

\* C25: bootstrap calls the store's, the notifications' and the location
\* service's initialize in that order, and calls one only after the ones
\* before it succeeded; when the store's fails the "Initialization Error"
\* alert shows and the app is not ready; when the location service's fails
\* the "Location Permission Required" alert shows and the app is ready.
C25_BootstrapInOrder ==
    [][(bootLog = << >> /\ bootLog' # << >>) =>
          /\ \E n \in 1..3 :
                bootLog' = SubSeq(<<"database", "notifications", "location">>, 1, n)
          /\ Len(bootLog') >= 2 => db' = "open"
          /\ Len(bootLog') = 3 => notifPerm' = "granted"
          /\ db' # "open" =>
                /\ bootLog' = <<"database">>
                /\ alert' = "Initialization Error"
                /\ ~isReady'
          /\ (Len(bootLog') = 3 /\ ~isLocationServicesEnabled') =>
                /\ alert' = "Location Permission Required"
                /\ isReady']_vars

C25_Witness ==
    /\ bootLog = <<"database", "notifications", "location">>
    /\ ~isLocationServicesEnabled
    /\ alert = "Location Permission Required"
    /\ isReady

\* C26: when the last of the suspended loadReminders runs resumes and the
\* store holds an active reminder, the registration it makes is computed
\* from the store's present content, and the monitored set afterwards is
\* the set of the active reminders.
C26_NewestSnapshotWins ==
    [][ \A load \in awaiting :
          (HomeLoadResume(load, TRUE) /\ awaiting' = {} /\ ActiveIds # {}) =>
             /\ load.allReminders \in getAllReminders(rows')
             /\ RegionIds(monitored') = ActiveIds ]_vars

\* C27: with the delete or the switching off of a reminder anywhere
\* between the handler's steps: a lookup that finds the reminder deleted
\* or inactive ends the run with nothing changed; a notification is
\* dispatched only by a run whose lookup found its reminder active; and no
\* step, the handler's triggeredAt write included, puts a row into the store
\* that was not there, so a deleted reminder stays absent.
C27_HandlerSafeBesideDelete ==
    [][ /\ \A id \in Ids :
              (lastTask'.id = id /\ lastTask'.outcome \in {"looked up", "dropped"}) =>
                 IF id \in ActiveIds
                 THEN /\ lastTask'.outcome = "looked up"
                      /\ awaiting' = { EnterRun("dispatch", getReminder(rows, id)[1]) }
                 ELSE /\ lastTask'.outcome = "dropped"
                      /\ awaiting' = awaiting
                      /\ notifications' = notifications
                      /\ rows' = rows
        /\ notifications' # notifications =>
              \E enter \in awaiting :
                 /\ enter.at = "dispatch"
                 /\ enter.reminder.isActive
                 /\ Len(notifications') = Len(notifications) + 1
                 /\ notifications'[Len(notifications')].reminderId = enter.reminder.id
                 /\ lastTask' = EnterStep(enter.reminder.id, "dispatched", FALSE)
        /\ DOMAIN rows' \subseteq DOMAIN rows ]_vars

C27_Witness ==
    /\ lastTask.outcome = "triggered"
    /\ lastTask.id \notin DOMAIN rows
    /\ \E n \in DOMAIN notifications : notifications[n].reminderId = lastTask.id

\* C28: the handler's triggeredAt write changes no other column of its
\* record, and no other write changes triggeredAt: the switch of the details
\* screen changes isActive alone, and an edit screen's save writes the
\* form's values and leaves isActive, triggeredAt and createdAt as they are.
C28_WritesKeepEachOther ==
    [][ \A id \in DOMAIN rows \cap DOMAIN rows' :
          /\ IF lastTask'.outcome = "triggered" /\ lastTask'.id = id
             THEN rows'[id] = [ rows[id] EXCEPT !.triggeredAt = At(now') ]
             ELSE rows'[id].triggeredAt = rows[id].triggeredAt
          /\ rows'[id].isActive # rows[id].isActive =>
                rows'[id] = [ rows[id] EXCEPT !.isActive = 1 - @ ]
          /\ (screen = "Edit" /\ screen' = "Away" /\ editReminderId = id) =>
                /\ rows'[id].title = Gym.title
                /\ rows'[id].description = Gym.description
                /\ rows'[id].latitude = editLatitude
                /\ rows'[id].longitude = editLongitude
                /\ rows'[id].radius = editRadius
                /\ rows'[id].notificationTitle = Gym.notificationTitle
                /\ rows'[id].notificationBody = Gym.notificationBody
                /\ rows'[id].isActive = rows[id].isActive
                /\ rows'[id].triggeredAt = rows[id].triggeredAt
                /\ rows'[id].createdAt = rows[id].createdAt ]_vars

C28_Witness ==
    /\ lastTask.outcome = "triggered"
    /\ lastTask.id \in DOMAIN rows
    /\ rows[lastTask.id].title = Gym.title
    /\ rows[lastTask.id].isActive = 0
    /\ rows[lastTask.id].triggeredAt = At(now)

\* C29: the handler writes triggeredAt only in a run that has dispatched
\* its notification before: a run reaches the write through a dispatch
\* that appended one notification for its reminder, a dispatch that fails
\* ends the run with the store and the notifications as they were, each
\* write ends its run, and a row holding a triggeredAt has a notification.
C29_WriteOnlyAfterDispatch ==
    [][ /\ lastTask'.outcome = "triggered" =>
              \E enter \in awaiting :
                 /\ enter = EnterRun("mark", enter.reminder)
                 /\ enter.reminder.id = lastTask'.id
                 /\ awaiting' = awaiting \ {enter}
                 /\ notifications' = notifications
        /\ \A enter \in awaiting' \ awaiting :
              enter.at = "mark" =>
                 /\ lastTask' = EnterStep(enter.reminder.id, "dispatched", FALSE)
                 /\ EnterRun("dispatch", enter.reminder) \in awaiting
                 /\ EnterRun("dispatch", enter.reminder) \notin awaiting'
                 /\ Len(notifications') = Len(notifications) + 1
                 /\ notifications'[Len(notifications')].reminderId = enter.reminder.id
                 /\ rows' = rows
        /\ lastTask'.outcome = "dispatch failed" =>
              /\ rows' = rows
              /\ notifications' = notifications
              /\ \A enter \in awaiting' : enter.at # "mark"
        /\ \A id \in DOMAIN rows' :
              rows'[id].triggeredAt # NoTime =>
                 \E n \in DOMAIN notifications' : notifications'[n].reminderId = id ]_vars

C29_Witness ==
    /\ lastTask.outcome = "dispatch failed"
    /\ lastTask.id \in ActiveIds
    /\ rows[lastTask.id].triggeredAt = NoTime
    /\ notifications = << >>

\* C30: a task invocation that carries an error, and one for an event
\* that is no Enter, dispatches no notification and changes no stored
\* reminder; the store and the notifications change only on an Enter event.
C30_OnlyEnterTriggers ==
    [][ /\ lastTask'.type \in {"Exit", "error"} =>
              /\ notifications' = notifications
              /\ rows' = rows
        /\ (notifications' # notifications \/ rows' # rows) =>
              lastTask'.type = "Enter" ]_vars

C30_Witness ==
    /\ lastTask.type \in {"Exit", "error"}
    /\ lastTask.outcome \in {"ignored", "task error"}
    /\ lastTask.id \in ActiveIds
    /\ taskDefined
====
